---- MODULE Spec2Model ----
(***************************************************************************)
(* Model of app_demo.py: the column identification and table               *)
(* normalisation part of the shoe sales dashboard script (lines 18-117).   *)
(* The script runs top to bottom once per page run; each block of the      *)
(* script is one action and pc is the position in the script.              *)
(*                                                                         *)
(* Column names are sequences of one-character strings so that             *)
(* str.lower() and the substring test "x in col.lower()" are computed.     *)
(* A cell of a table is a record [k, n, s]:                                *)
(*   k = "int"  an integer n                                               *)
(*   k = "nan"  a missing value (NaN)                                      *)
(*   k = "str"  the text s repeated n times (n = 1 for text read from the  *)
(*              file; Python's str * int gives the other counts)           *)
(*   k = "ts"   a timestamp: s = "ymd", n = yyyymmdd for a parsed date     *)
(*              string; s = "ns", n = nanoseconds since the epoch for a    *)
(*              converted number                                           *)
(*   k = "nat"  a missing timestamp (NaT)                                  *)
(***************************************************************************)
EXTENDS Integers, Sequences, FiniteSets, TLC

VARIABLES pc, file, df, defined, sel, column_mapping, processed_df

vars == <<pc, file, df, defined, sel, column_mapping, processed_df>>

(***************************************************************************)
(* Bounds of the model.                                                    *)
(***************************************************************************)
\* longest header of an input file drawn from ColumnPool
MaxCols == 3
\* most rows of an input file
MaxRows == 2
\* rows of the generated sample table (the script generates 500)
SampleRows == 1

(***************************************************************************)
(* Text.                                                                   *)
(***************************************************************************)
UpperChars == <<"A","B","C","D","E","F","G","H","I","J","K","L","M",
                "N","O","P","Q","R","S","T","U","V","W","X","Y","Z">>

LowerChars == <<"a","b","c","d","e","f","g","h","i","j","k","l","m",
                "n","o","p","q","r","s","t","u","v","w","x","y","z">>

\* one character of str.lower()
LowerChar(c) ==
    IF \E i \in 1..Len(UpperChars) : UpperChars[i] = c
    THEN LowerChars[CHOOSE i \in 1..Len(UpperChars) : UpperChars[i] = c]
    ELSE c

\* col.lower()
Lower(col) == [i \in 1..Len(col) |-> LowerChar(col[i])]

\* sub in s
Contains(sub, s) ==
    \E i \in 1..(Len(s) - Len(sub) + 1) : SubSeq(s, i, i + Len(sub) - 1) = sub

\* Python's None; an absent column name
None == <<>>

(***************************************************************************)
(* Column names: the canonical names the script renames to, and the other  *)
(* header names of the modelled input files.                               *)
(***************************************************************************)
Datum == <<"D","a","t","u","m">>

Locatie == <<"L","o","c","a","t","i","e">>

SchoenType == <<"S","c","h","o","e","n","T","y","p","e">>

Verkoop == <<"V","e","r","k","o","o","p">>

Prijs == <<"P","r","i","j","s">>

Omzet == <<"O","m","z","e","t">>

\* an English, upper-case header for the sales quantity
SALES == <<"S","A","L","E","S">>

\* a header that holds the synonyms of two roles
VerkoopPrijs == <<"V","e","r","k","o","o","p","P","r","i","j","s">>

\* a header that holds no synonym; its cells are date strings
Dag == <<"D","a","g">>

\* the keys of a sample record, in order
SampleColumns == <<Datum, Locatie, SchoenType, Verkoop, Prijs>>

\* the header names of the modelled input files
ColumnPool == {Datum, Locatie, SchoenType, Verkoop, Prijs, Omzet, SALES, VerkoopPrijs, Dag}

(***************************************************************************)
(* Roles and their synonym substrings.                                     *)
(***************************************************************************)
\* the order in which the script identifies, asks for and maps the columns
RoleOrder == <<"Date", "Location", "Product", "SalesQuantity", "Price">>

Roles == {RoleOrder[i] : i \in 1..Len(RoleOrder)}

Synonyms(role) ==
    CASE role = "Date" -> {<<"d","a","t","e">>, <<"d","a","t","u","m">>}
      [] role = "Location" -> {<<"l","o","c","a","t","i","o","n">>, <<"l","o","c","a","t","i","e">>}
      [] role = "Product" -> {<<"p","r","o","d","u","c","t">>, <<"s","c","h","o","e","n">>, <<"t","y","p","e">>}
      [] role = "SalesQuantity" -> {<<"s","a","l","e","s">>, <<"v","e","r","k","o","o","p">>}
      [] role = "Price" -> {<<"p","r","i","c","e">>, <<"p","r","i","j","s">>}

\* the condition of the generator expression of a role
Matches(role, col) == \E syn \in Synonyms(role) : Contains(syn, Lower(col))

\* the name a role's column is renamed to
CanonicalName(role) ==
    CASE role = "Date" -> Datum
      [] role = "Location" -> Locatie
      [] role = "Product" -> SchoenType
      [] role = "SalesQuantity" -> Verkoop
      [] role = "Price" -> Prijs

RECURSIVE LastMatch(_, _)
\* FirstMatch taking the last column that matches instead of the first
LastMatch(cols, role) ==
    IF cols = <<>> THEN None
    ELSE IF Matches(role, cols[Len(cols)]) THEN cols[Len(cols)]
    ELSE LastMatch(SubSeq(cols, 1, Len(cols) - 1), role)

RECURSIVE FirstMatch(_, _)
\* next((col for col in cols if <role's condition>), None)
FirstMatch(cols, role) ==
    IF cols = <<>> THEN None
    ELSE IF Matches(role, Head(cols)) THEN Head(cols)
    ELSE FirstMatch(Tail(cols), role)

(***************************************************************************)
(* Cells and frames.                                                       *)
(***************************************************************************)
IntCell(n) == [k |-> "int", n |-> n, s |-> ""]

NaN == [k |-> "nan", n |-> 0, s |-> ""]

TextCell(s) == [k |-> "str", n |-> 1, s |-> s]

NaT == [k |-> "nat", n |-> 0, s |-> ""]

\* the date strings of the modelled files and the dates they parse to
DateValue == ("2023-01-05" :> 20230105) @@ ("2023-01-06" :> 20230106)

\* pd.DataFrame()
EmptyFrame == [cols |-> <<>>, rows |-> <<>>]

\* df.empty
IsEmpty(frame) == Len(frame.cols) = 0 \/ Len(frame.rows) = 0

\* name in frame.columns
HasColumn(frame, name) == \E j \in 1..Len(frame.cols) : frame.cols[j] = name

\* the positions of the columns labelled name
Positions(frame, name) == {j \in 1..Len(frame.cols) : frame.cols[j] = name}

\* the dtype pandas gives the column at position j
Dtype(frame, j) ==
    LET ks == {frame.rows[i][j].k : i \in 1..Len(frame.rows)}
    IN  IF ks \subseteq {"ts", "nat"} THEN "datetime64"
        ELSE IF "str" \in ks THEN "object"
        ELSE IF "nan" \in ks THEN "float64"
        ELSE "int64"

\* whether pd.to_datetime raises on a cell under errors='raise'
Unparseable(c) == c.k = "str" /\ ~(c.n = 1 /\ c.s \in DOMAIN DateValue)

\* pd.to_datetime of one cell; an unparseable cell gives NaT (errors='coerce')
ToDatetime(c) ==
    CASE c.k = "int" -> [k |-> "ts", n |-> c.n, s |-> "ns"]
      [] c.k = "nan" -> NaT
      [] c.k = "str" -> IF Unparseable(c) THEN NaT
                        ELSE [k |-> "ts", n |-> DateValue[c.s], s |-> "ymd"]
      [] OTHER -> c

\* frame with pd.to_datetime applied to the column at position j
ConvertColumn(frame, j) ==
    [frame EXCEPT !.rows = [i \in 1..Len(frame.rows) |->
        [frame.rows[i] EXCEPT ![j] = ToDatetime(frame.rows[i][j])]]]

(***************************************************************************)
(* The input files.                                                        *)
(***************************************************************************)
\* the headers of at most n distinct names of pool (read_csv keeps header
\* names distinct)
Headers(pool, n) ==
    {h \in UNION {[1..m -> pool] : m \in 1..n} :
        \A i, j \in 1..Len(h) : h[i] = h[j] => i = j}

\* whether the files hold text under this header name
IsTextColumn(name) == name \in {Datum, Dag, Locatie, SchoenType}

\* the clean cell of row r under a header name
BaseCell(name, r) ==
    CASE name \in {Datum, Dag} -> TextCell(IF r % 2 = 1 THEN "2023-01-05" ELSE "2023-01-06")
      [] name = Locatie -> TextCell("Amsterdam")
      [] name = SchoenType -> TextCell("Boots")
      [] name \in {Verkoop, SALES} -> IntCell(r + 1)
      [] name = Prijs -> IntCell(100 * r)
      [] name = VerkoopPrijs -> IntCell(10 * r)
      [] name = Omzet -> IntCell(7 * r)

NoSpoil == [row |-> 0, col |-> 0]

\* the cells of a file of this header and row count that can be spoiled: none
\* or one
Spoils(h, nrows) ==
    {NoSpoil} \cup {[row |-> r, col |-> j] : r \in 1..nrows, j \in 1..Len(h)}

\* a spoiled cell holds text that is no date under a text header and is
\* missing under a numeric header
FileRows(h, nrows, sp) ==
    [r \in 1..nrows |-> [j \in 1..Len(h) |->
        IF sp.row = r /\ sp.col = j
        THEN (IF IsTextColumn(h[j]) THEN TextCell("foo") ELSE NaN)
        ELSE BaseCell(h[j], r)]]

\* the header names of the input files whose rows vary
RowPool == {Datum, Dag, Verkoop, Prijs}

\* the file is absent, or unreadable, or holds
\*  - some of the canonical columns in some order and one clean row, or
\*  - a header drawn from ColumnPool and one clean row, or
\*  - a header drawn from RowPool, or the header of the sample records, and
\*    up to MaxRows rows with at most one spoiled cell
Files ==
    {[status |-> st, cols |-> <<>>, rows |-> <<>>] : st \in {"absent", "unreadable"}} \cup
    {[status |-> "ok", cols |-> h, rows |-> FileRows(h, 1, NoSpoil)] :
        h \in Headers({SampleColumns[j] : j \in 1..Len(SampleColumns)}, Len(SampleColumns))
               \cup Headers(ColumnPool, MaxCols)} \cup
    UNION {UNION {{[status |-> "ok", cols |-> h, rows |-> FileRows(h, nrows, sp)] :
                      sp \in Spoils(h, nrows)} :
                  nrows \in 0..MaxRows} :
           h \in Headers(RowPool, MaxCols) \cup {SampleColumns}}

AllNone == [r \in Roles |-> None]

Init ==
    /\ file \in Files
    /\ pc = "load"
    /\ df = EmptyFrame
    /\ defined = FALSE
    /\ sel = AllNone
    /\ column_mapping = <<>>
    /\ processed_df = EmptyFrame

(***************************************************************************)
(* load_data(): the file read and the conversion of the first date column, *)
(* with any exception turned into an empty frame.                          *)
(***************************************************************************)
\* the frame load_data returns
load_data(f) ==
    IF f.status # "ok" THEN EmptyFrame
    ELSE LET read == [cols |-> f.cols, rows |-> f.rows]
             date_col == FirstMatch(read.cols, "Date")
         IN  IF date_col = None THEN read
             ELSE LET j == CHOOSE j \in 1..Len(read.cols) : read.cols[j] = date_col
                  IN  IF \E i \in 1..Len(read.rows) : Unparseable(read.rows[i][j])
                      THEN EmptyFrame
                      ELSE ConvertColumn(read, j)

LoadData ==
    /\ pc = "load"
    /\ df' = load_data(file)
    /\ pc' = "branch"
    /\ UNCHANGED <<file, defined, sel, column_mapping, processed_df>>

(***************************************************************************)
(* The sample table, generated when the loaded frame is empty.             *)
(***************************************************************************)
\* the first and the last of the 100 days of pd.date_range
SampleDates == {20230101, 20230410}

locations == <<"Amsterdam", "Rotterdam", "Utrecht", "Den Haag", "Eindhoven">>

shoe_types == <<"Sneakers", "Loafers", "Boots", "High Heels", "Sandals">>

\* the first and the last element of a list, for np.random.choice
Ends(list) == {list[1], list[Len(list)]}

\* the least and the greatest value of np.random.randint(1, 10)
SampleSales == {1, 9}

\* SamplePrices with the upper limit of randint taken as inclusive
SamplePricesInclusive == {100, 500}

\* the least and the greatest value of np.random.randint(100, 500)
SamplePrices == {100, 499}

\* the records one pass of the loop can append
SampleRecords ==
    {<<[k |-> "ts", n |-> d, s |-> "ymd"], TextCell(l), TextCell(t), IntCell(v), IntCell(p)>> :
        d \in SampleDates, l \in Ends(locations), t \in Ends(shoe_types),
        v \in SampleSales, p \in SamplePrices}

SampleData ==
    /\ pc = "branch"
    /\ IsEmpty(df)
    /\ \E data \in [1..SampleRows -> SampleRecords] :
          df' = [cols |-> SampleColumns, rows |-> data]
    /\ pc' = "rename"
    /\ UNCHANGED <<file, defined, sel, column_mapping, processed_df>>

(***************************************************************************)
(* Column identification and the user's selection.                         *)
(***************************************************************************)
\* date_col .. price_col as the five next(...) expressions assign them
resolve(cols) == [r \in Roles |-> FirstMatch(cols, r)]

Resolve ==
    /\ pc = "branch"
    /\ ~IsEmpty(df)
    /\ sel' = resolve(df.cols)
    /\ defined' = TRUE
    /\ pc' = "select"
    /\ UNCHANGED <<file, df, column_mapping, processed_df>>

\* all([date_col, location_col, sales_col])
RequiredFound(m) == \A r \in {"Date", "Location", "SalesQuantity"} : m[r] # None

\* the roles the script shows a selectbox for
Asked(m) == IF RequiredFound(m) THEN {} ELSE {r \in Roles : m[r] = None}

Select ==
    /\ pc = "select"
    /\ \E choice \in [Asked(sel) -> {df.cols[j] : j \in 1..Len(df.cols)}] :
          sel' = [r \in Roles |-> IF r \in Asked(sel) THEN choice[r] ELSE sel[r]]
    /\ pc' = "rename"
    /\ UNCHANGED <<file, df, defined, column_mapping, processed_df>>

(***************************************************************************)
(* The rename to the canonical names.                                      *)
(***************************************************************************)
\* Assign keeping the value of a key the dict already holds
AssignKeepFirst(mapping, key, val) ==
    [x \in (DOMAIN mapping) \cup {key} |->
        IF x \in DOMAIN mapping THEN mapping[x] ELSE val]

\* mapping[key] = val on a dict
Assign(mapping, key, val) ==
    [x \in (DOMAIN mapping) \cup {key} |-> IF x = key THEN val ELSE mapping[x]]

RECURSIVE BuildMapping(_, _, _, _)
\* the five guarded assignments to column_mapping, from role number i on
BuildMapping(i, isdef, m, mapping) ==
    IF i > Len(RoleOrder) THEN mapping
    ELSE BuildMapping(i + 1, isdef, m,
            IF isdef /\ m[RoleOrder[i]] # None
            THEN Assign(mapping, m[RoleOrder[i]], CanonicalName(RoleOrder[i]))
            ELSE mapping)

\* rename with its result thrown away
RenameDiscarded(frame, mapping) == frame

\* frame.rename(columns=mapping)
rename(frame, mapping) ==
    [frame EXCEPT !.cols = [j \in 1..Len(frame.cols) |->
        IF frame.cols[j] \in DOMAIN mapping THEN mapping[frame.cols[j]] ELSE frame.cols[j]]]

Rename ==
    /\ pc = "rename"
    /\ LET mapping == BuildMapping(1, defined, sel, <<>>)
       IN  /\ column_mapping' = mapping
           /\ processed_df' = IF mapping # <<>> THEN rename(df, mapping) ELSE df
    /\ pc' = "coerce"
    /\ UNCHANGED <<file, df, defined, sel>>

(***************************************************************************)
(* The conversion of Datum.                                                *)
(***************************************************************************)
\* frame[name] is a frame, not a column, when the label occurs twice
Ambiguous(frame, name) == Cardinality(Positions(frame, name)) > 1

\* the position of the one column labelled name
Position(frame, name) == CHOOSE j \in Positions(frame, name) : TRUE

\* whether the conversion raises: pd.to_datetime of a frame needs the
\* columns year, month and day
CoerceRaises(frame) == HasColumn(frame, Datum) /\ Ambiguous(frame, Datum)

\* the frame after the conversion block
coerce(frame) ==
    IF HasColumn(frame, Datum) /\ Dtype(frame, Position(frame, Datum)) # "datetime64"
    THEN ConvertColumn(frame, Position(frame, Datum))
    ELSE frame

CoerceDatum ==
    /\ pc = "coerce"
    /\ IF CoerceRaises(processed_df)
       THEN pc' = "crashed" /\ UNCHANGED processed_df
       ELSE pc' = "revenue" /\ processed_df' = coerce(processed_df)
    /\ UNCHANGED <<file, df, defined, sel, column_mapping>>

(***************************************************************************)
(* The revenue column.                                                     *)
(***************************************************************************)
\* whether a * b raises for two present cells of columns of dtypes da, db
CellMulRaises(a, da, b, db) ==
    \/ a.k = "str" /\ b.k = "str"
    \/ a.k = "str" /\ db # "int64"
    \/ b.k = "str" /\ da # "int64"

\* CellMul with a missing value counted as zero
CellMulMissingAsZero(a, b) ==
    IF a.k = "nan" \/ b.k = "nan" THEN IntCell(0)
    ELSE IF a.k = "str" THEN [a EXCEPT !.n = a.n * (IF b.n > 0 THEN b.n ELSE 0)]
    ELSE IF b.k = "str" THEN [b EXCEPT !.n = b.n * (IF a.n > 0 THEN a.n ELSE 0)]
    ELSE IntCell(a.n * b.n)

\* a * b for two cells
CellMul(a, b) ==
    IF a.k = "nan" \/ b.k = "nan" THEN NaN
    ELSE IF a.k = "str" THEN [a EXCEPT !.n = a.n * (IF b.n > 0 THEN b.n ELSE 0)]
    ELSE IF b.k = "str" THEN [b EXCEPT !.n = b.n * (IF a.n > 0 THEN a.n ELSE 0)]
    ELSE IntCell(a.n * b.n)

\* whether frame['Verkoop'] * frame['Prijs'] raises
MulRaises(frame, jv, jp) ==
    \/ Dtype(frame, jv) = "datetime64"
    \/ Dtype(frame, jp) = "datetime64"
    \/ \E i \in 1..Len(frame.rows) :
          /\ frame.rows[i][jv].k # "nan"
          /\ frame.rows[i][jp].k # "nan"
          /\ CellMulRaises(frame.rows[i][jv], Dtype(frame, jv),
                           frame.rows[i][jp], Dtype(frame, jp))

\* the condition of the revenue block
HasSalesAndPrice(frame) == HasColumn(frame, Verkoop) /\ HasColumn(frame, Prijs)

RevenueRaises(frame) ==
    /\ HasSalesAndPrice(frame)
    /\ \/ Ambiguous(frame, Verkoop)
       \/ Ambiguous(frame, Prijs)
       \/ MulRaises(frame, Position(frame, Verkoop), Position(frame, Prijs))

\* frame[name] = values: in place when the column exists, appended otherwise
SetColumn(frame, name, values) ==
    IF HasColumn(frame, name)
    THEN [frame EXCEPT !.rows = [i \in 1..Len(frame.rows) |->
            [frame.rows[i] EXCEPT ![Position(frame, name)] = values[i]]]]
    ELSE [cols |-> Append(frame.cols, name),
          rows |-> [i \in 1..Len(frame.rows) |-> Append(frame.rows[i], values[i])]]

\* the frame after the revenue block
revenue(frame) ==
    IF HasSalesAndPrice(frame)
    THEN SetColumn(frame, Omzet,
            [i \in 1..Len(frame.rows) |->
                CellMul(frame.rows[i][Position(frame, Verkoop)],
                        frame.rows[i][Position(frame, Prijs)])])
    ELSE frame

Revenue ==
    /\ pc = "revenue"
    /\ IF RevenueRaises(processed_df)
       THEN pc' = "crashed" /\ UNCHANGED processed_df
       ELSE pc' = "done" /\ processed_df' = revenue(processed_df)
    /\ UNCHANGED <<file, df, defined, sel, column_mapping>>

Next ==
    \/ LoadData
    \/ SampleData
    \/ Resolve
    \/ Select
    \/ Rename
    \/ CoerceDatum
    \/ Revenue

Spec == Init /\ [][Next]_vars

(***************************************************************************)
(* Properties.                                                             *)
(***************************************************************************)
\* the script is past the column identification and before the selection
Identified == pc = "select"

\* the roles that hold source column c when the rename table is built
Holders(c) == {r \in Roles : defined /\ sel[r] = c}

RoleIndex(r) == CHOOSE i \in 1..Len(RoleOrder) : RoleOrder[i] = r

\* the cells of the column at position j, top to bottom
ColumnCells(frame, j) == [i \in 1..Len(frame.rows) |-> frame.rows[i][j]]

\* C1: column identification never gives the same source column to two roles.
C1_NoDoubleAssignment ==
    Identified =>
        \A r1, r2 \in Roles : (r1 # r2 /\ sel[r1] # None) => sel[r1] # sel[r2]

\* no column of the header matches the synonyms of more than one role
SingleRoleColumns(cols) ==
    \A j \in 1..Len(cols) : Cardinality({r \in Roles : Matches(r, cols[j])}) <= 1

\* C2: when no column matches more than one role, each role is identified
\* with the earliest column of the header that holds one of its synonyms, a
\* role without such a column stays unidentified, and the header Datum,
\* Locatie, SchoenType, Verkoop, Prijs identifies all five with themselves.
C2_EarliestMatchWins ==
    (Identified /\ SingleRoleColumns(df.cols)) =>
        /\ \A r \in Roles :
              IF \E j \in 1..Len(df.cols) : Matches(r, df.cols[j])
              THEN \E j \in 1..Len(df.cols) :
                      /\ sel[r] = df.cols[j]
                      /\ Matches(r, df.cols[j])
                      /\ \A i \in 1..(j - 1) : ~Matches(r, df.cols[i])
              ELSE sel[r] = None
        /\ df.cols = <<Datum, Locatie, SchoenType, Verkoop, Prijs>> =>
              sel = [r \in Roles |-> CanonicalName(r)]

\* two columns hold a synonym of the sales quantity, the earlier one is taken,
\* and the price has no column
C2_Witness ==
    /\ Identified
    /\ SingleRoleColumns(df.cols)
    /\ \E i, j \in 1..Len(df.cols) :
          /\ i < j
          /\ Matches("SalesQuantity", df.cols[i])
          /\ Matches("SalesQuantity", df.cols[j])
          /\ sel["SalesQuantity"] = df.cols[i]
    /\ sel["Price"] = None

\* C3: a normalized table holds Omzet exactly when it holds Verkoop and Prijs.
C3_OmzetIffSalesAndPrice ==
    pc = "done" => (HasColumn(processed_df, Omzet) <=> HasSalesAndPrice(processed_df))

\* the rows of the file whose cell under the date column is no date
BadDateRows(f) ==
    LET date_col == FirstMatch(f.cols, "Date")
    IN  IF date_col = None THEN {}
        ELSE {i \in 1..Len(f.rows) :
                \E j \in 1..Len(f.cols) : f.cols[j] = date_col /\ Unparseable(f.rows[i][j])}

\* the file was read and one cell of its date column, among others, is no date
OneBadDate(f) ==
    f.status = "ok" /\ Len(f.rows) >= 2 /\ Cardinality(BadDateRows(f)) = 1

\* C4: a file that is read and holds one unparseable date among valid ones
\* raises no error, keeps its number of rows in the normalized table, and has
\* exactly that date cell missing.
C4_BadDateKeepsRows ==
    OneBadDate(file) =>
        /\ pc # "crashed"
        /\ pc = "done" =>
              /\ Len(processed_df.rows) = Len(file.rows)
              /\ HasColumn(processed_df, Datum)
              /\ \A j \in Positions(processed_df, Datum) :
                    \A i \in 1..Len(processed_df.rows) :
                        (processed_df.rows[i][j] = NaT) <=> (i \in BadDateRows(file))

\* the file was read, has no rows, and its header identifies all five roles
ZeroRowsFullMapping(f) ==
    f.status = "ok" /\ Len(f.rows) = 0 /\ \A r \in Roles : FirstMatch(f.cols, r) # None

\* C5: a file without rows whose header identifies all five roles raises no
\* error and normalizes to a table without rows that holds the canonical
\* columns.
C5_ZeroRowsStayZero ==
    ZeroRowsFullMapping(file) =>
        /\ pc # "crashed"
        /\ pc = "done" =>
              /\ Len(processed_df.rows) = 0
              /\ \A r \in Roles : HasColumn(processed_df, CanonicalName(r))

\* C6: the rename of a loaded table starts with a column for every role.
C6_RenameConsumesFullMapping ==
    (pc = "rename" /\ defined) => \A r \in Roles : sel[r] # None

\* the values a sample record can hold under each of its keys
InSampleRanges(row) ==
    /\ row[1].k = "ts" /\ row[1].s = "ymd" /\ row[1].n \in 20230101..20230410
    /\ row[2].k = "str" /\ row[2].n = 1
    /\ row[2].s \in {"Amsterdam", "Rotterdam", "Utrecht", "Den Haag", "Eindhoven"}
    /\ row[3].k = "str" /\ row[3].n = 1
    /\ row[3].s \in {"Sneakers", "Loafers", "Boots", "High Heels", "Sandals"}
    /\ row[4].k = "int" /\ row[4].n \in 1..9
    /\ row[5].k = "int" /\ row[5].n \in 100..499

\* C7: when the file is absent or unreadable the script does not stop: it
\* goes on with a sample table of the columns Datum, Locatie, SchoenType,
\* Verkoop, Prijs with values of the fixed sets, and ends with that table and
\* its Omzet.
C7_LoadFailureFallsBackToSample ==
    file.status # "ok" =>
        /\ pc # "crashed"
        /\ pc # "done" => ENABLED Next
        /\ pc \in {"rename", "coerce", "revenue", "done"} =>
              /\ df.cols = <<Datum, Locatie, SchoenType, Verkoop, Prijs>>
              /\ Len(df.rows) > 0
              /\ \A i \in 1..Len(df.rows) : InSampleRanges(df.rows[i])
        /\ pc = "done" =>
              /\ processed_df.cols = <<Datum, Locatie, SchoenType, Verkoop, Prijs, Omzet>>
              /\ \A i \in 1..Len(df.rows) :
                    /\ SubSeq(processed_df.rows[i], 1, 5) = df.rows[i]
                    /\ processed_df.rows[i][6] = IntCell(df.rows[i][4].n * df.rows[i][5].n)

\* the file is absent and the script has ended with a sample table and Omzet
C7_Witness ==
    /\ file.status = "absent"
    /\ pc = "done"
    /\ Len(processed_df.rows) = SampleRows
    /\ HasColumn(processed_df, Omzet)

\* what the revenue block leaves behind, from frame before to frame after
RevenueDerived(before, after) ==
    LET jv == Position(before, Verkoop)
        jp == Position(before, Prijs)
        jo == Position(after, Omzet)
    IN  /\ HasColumn(after, Omzet)
        /\ Len(after.rows) = Len(before.rows)
        /\ \A i \in 1..Len(before.rows) :
              /\ \A j \in 1..Len(before.cols) :
                    before.cols[j] # Omzet =>
                        after.cols[j] = before.cols[j] /\ after.rows[i][j] = before.rows[i][j]
              /\ (before.rows[i][jv].k = "nan" \/ before.rows[i][jp].k = "nan") =>
                    after.rows[i][jo] = NaN
              /\ (before.rows[i][jv].k = "int" /\ before.rows[i][jp].k = "int") =>
                    after.rows[i][jo] = IntCell(before.rows[i][jv].n * before.rows[i][jp].n)
        /\ (ColumnCells(before, jv) = <<IntCell(2), IntCell(3)>>
              /\ ColumnCells(before, jp) = <<IntCell(100), IntCell(200)>>) =>
              ColumnCells(after, jo) = <<IntCell(200), IntCell(600)>>

\* C8: when the table holds Verkoop and Prijs, the revenue block gives every
\* row the Omzet Verkoop times Prijs, a missing Omzet where either is
\* missing, and leaves the rows, their order and the other cells as they were;
\* Verkoop 2, 3 and Prijs 100, 200 give Omzet 200, 600.
C8_OmzetIsProduct ==
    [][(pc = "revenue" /\ pc' = "done" /\ HasSalesAndPrice(processed_df)) =>
            RevenueDerived(processed_df, processed_df')]_vars

\* Verkoop 2, 3 and Prijs 100, 200 have given Omzet 200, 600
C8_Witness ==
    /\ pc = "done"
    /\ HasSalesAndPrice(processed_df)
    /\ ColumnCells(processed_df, Position(processed_df, Verkoop)) = <<IntCell(2), IntCell(3)>>
    /\ ColumnCells(processed_df, Position(processed_df, Prijs)) = <<IntCell(100), IntCell(200)>>
    /\ HasColumn(processed_df, Omzet)
    /\ ColumnCells(processed_df, Position(processed_df, Omzet)) = <<IntCell(200), IntCell(600)>>

C10_LaterRoleWins ==
    pc = "coerce" =>
        \A r1, r2 \in Roles :
            (defined /\ sel[r1] # None /\ sel[r1] = sel[r2] /\ RoleIndex(r1) < RoleIndex(r2)) =>
                /\ \A c \in DOMAIN column_mapping : column_mapping[c] # CanonicalName(r1)
                /\ \A r \in Holders(sel[r1]) :
                      (\A q \in Holders(sel[r1]) : RoleIndex(q) <= RoleIndex(r)) =>
                          /\ column_mapping[sel[r1]] = CanonicalName(r)
                          /\ \A j \in 1..Len(df.cols) :
                                df.cols[j] = sel[r1] => processed_df.cols[j] = CanonicalName(r)

\* the identification gave one column to the sales quantity and the price,
\* and the column has been renamed Prijs
C10_Witness ==
    /\ pc = "coerce"
    /\ sel["SalesQuantity"] = VerkoopPrijs
    /\ sel["Price"] = VerkoopPrijs
    /\ \E j \in 1..Len(df.cols) : df.cols[j] = VerkoopPrijs /\ processed_df.cols[j] = Prijs
    /\ ~HasColumn(processed_df, Verkoop)

====
